---- MODULE Spec2Model ----
(***************************************************************************)
(* Model of the concurrent benchmark harness of                            *)
(* sagemaker/01_multi_adapter_hosting_sagemaker_lorax/                     *)
(* multi_adapter_hosting_sagemaker.ipynb (the cell that defines            *)
(* invoke_adapter and benchmark_scenario).                                 *)
(*                                                                         *)
(* The module-level globals total_requests, adapter_counters and           *)
(* counters_lock are the shared work pool.  Every worker thread runs       *)
(* invoke_adapter; the orchestrator runs benchmark_scenario.               *)
(***************************************************************************)
EXTENDS Integers, Sequences, FiniteSets, TLC

\* ------------------------------------------------------------------ bounds
MaxBudget == 3

MaxAdapters == 2

MaxThreads == 2

MaxRuns == 2

MaxLatency == 1

MaxTime == 2

\* ------------------------------------------------------------------ state
VARIABLES
    budget,            \* the value line 502 gives total_requests
    total_requests,    \* global remaining count (single-adapter mode)
    num_adapters,
    num_threads,
    adapter_counters,  \* list of remaining counts, one per adapter
    counters_lock,     \* owner of the lock, NoOwner when free
    orch_pc,           \* position of the notebook / benchmark_scenario
    error,             \* exception that ended the cell or the call
    single_adapter,    \* argument of the running benchmark_scenario call
    threads,           \* number of threads created and started (len(threads))
    joined,            \* number of threads the join loop has passed
    all_latencies,     \* the list each worker shares with the orchestrator
    pc,                \* position of each worker in invoke_adapter
    adapter_id,        \* local adapter_id of each worker (0: none)
    latencies,         \* local list latencies of each worker, while it runs
    result,            \* what benchmark_scenario computed after the join
    runs,              \* number of benchmark_scenario calls made
    run_budget,        \* total_requests at the moment of the call
    run_counters,      \* adapter_counters at the moment of the call
    claimed,           \* per adapter: claims made during the current call
    invocations,       \* per adapter: requests the endpoint received in it
    completed          \* per adapter: requests of it that returned or raised

vars == <<budget, total_requests, num_adapters, num_threads, adapter_counters,
          counters_lock, orch_pc, error, single_adapter, threads, joined,
          all_latencies, pc, adapter_id, latencies, result, runs, run_budget,
          run_counters, claimed, invocations, completed>>

Threads == 1..MaxThreads

AdapterIds == 1..MaxAdapters

Latency == 1..MaxLatency

NoOwner == 0

\* readings of time.time() - start_time in benchmark_scenario, in ticks
Elapsed == 1..MaxTime

NoResult == [total_latency |-> 0, total_requests_made |-> 0,
             average_latency |-> <<0, 0>>, throughput |-> <<0, 0>>,
             total_time |-> 0]

\* ---------------------------------------------------------------- helpers
RECURSIVE SumSeq(_)
SumSeq(s) == IF s = <<>> THEN 0 ELSE Head(s) + SumSeq(Tail(s))

RECURSIVE SumOver(_, _)
SumOver(f, n) == IF n = 0 THEN 0 ELSE f[n] + SumOver(f, n - 1)

\* [x] * n
Repeat(x, n) == [i \in 1..n |-> x]

\* an off-by-one test, "count >= 0"
HasWork_Inclusive(count) == count >= 0

\* the condition "count > 0" of lines 518 and 524
HasWork(count) == count > 0

\* a list that also offers the adapters whose count is used up
remaining_adapters_Unfiltered == 1..Len(adapter_counters)

\* [i for i, count in enumerate(adapter_counters) if count > 0], as ids i + 1
remaining_adapters == {i \in 1..Len(adapter_counters) : HasWork(adapter_counters[i])}

\* the request sent inside the with block: the lock is still held after it
LockAfterExit_Held(w) == w

\* the value of the lock once the "with counters_lock" block has been left
LockAfterExit(w) == NoOwner

\* a claim step that does not take the lock
LockFree_Unguarded == TRUE

\* the lock can be taken by "with counters_lock"
LockFree == counters_lock = NoOwner

\* a join that does not wait for the thread
Terminated_NoWait(w) == TRUE

\* a thread that thread.join() returns for: it ran to its end or it died
Terminated(w) == pc[w] \in {"done", "raised"}

ZeroFn == [i \in AdapterIds |-> 0]

\* a division that is guarded and never raises
ZeroDivision_Guarded(divisor) == FALSE

\* "//" (line 508) and "/" (line 563) raise ZeroDivisionError
ZeroDivision(divisor) == divisor = 0

\* a count taken down twice for one claim
Decremented_Twice(count) == count - 2

\* "-= 1" of lines 519 and 528
Decremented(count) == count - 1

\* a payload that always names the first adapter
Target_First(w) == 1

\* the adapter the payload of lines 531-537 names: the local adapter_id
Target(w) == adapter_id[w]

\* ------------------------------------------------------------------- init
Init ==
    /\ budget \in 0..MaxBudget
    /\ num_adapters \in 0..MaxAdapters
    /\ num_threads \in 0..MaxThreads
    /\ total_requests = budget
    /\ adapter_counters = <<>>
    /\ counters_lock = NoOwner
    /\ orch_pc = "config"
    /\ error = "none"
    /\ single_adapter = FALSE
    /\ threads = 0
    /\ joined = 0
    /\ all_latencies = [w \in Threads |-> <<>>]
    /\ pc = [w \in Threads |-> "unstarted"]
    /\ adapter_id = [w \in Threads |-> 0]
    /\ latencies = [w \in Threads |-> <<>>]
    /\ result = NoResult
    /\ runs = 0
    /\ run_budget = 0
    /\ run_counters = <<>>
    /\ claimed = ZeroFn
    /\ invocations = ZeroFn
    /\ completed = ZeroFn

\* ----------------------------------------------------- module-level setup
\* adapter_counters = [total_requests // num_adapters] * num_adapters
ConfigureCounters ==
    /\ orch_pc = "config"
    /\ IF ZeroDivision(num_adapters)
         THEN /\ orch_pc' = "aborted"
              /\ error' = "ZeroDivisionError"
              /\ UNCHANGED adapter_counters
         ELSE /\ adapter_counters' = Repeat(total_requests \div num_adapters, num_adapters)
              /\ orch_pc' = "idle"
              /\ UNCHANGED error
    /\ UNCHANGED <<budget, total_requests, num_adapters, num_threads,
                   counters_lock, single_adapter, threads, joined,
                   all_latencies, pc, adapter_id, latencies, result, runs,
                   run_budget, run_counters, claimed, invocations, completed>>

\* ------------------------------------------------------------ the workers
\* with counters_lock:  (entry)
Acquire(w) ==
    /\ pc[w] = "loop"
    /\ LockFree
    /\ counters_lock' = w
    /\ pc' = [pc EXCEPT ![w] = "check"]
    /\ UNCHANGED <<budget, total_requests, num_adapters, num_threads,
                   adapter_counters, orch_pc, error, single_adapter, threads,
                   joined, all_latencies, adapter_id, latencies, result, runs,
                   run_budget, run_counters, claimed, invocations, completed>>

\* one list handed to every thread: each extends the first one
Extended_Shared(w) == [all_latencies EXCEPT ![1] = @ \o latencies[w]]

\* line 544: aggregate_latency.extend(latencies), on the worker's own list
Extended(w) == [all_latencies EXCEPT ![w] = @ \o latencies[w]]

\* lines 516-521: adapter_id = 1; if total_requests > 0 ... else break; the
\* break leaves the with block and the loop, and line 544 follows
CheckSingle(w) ==
    /\ pc[w] = "check"
    /\ single_adapter
    /\ IF HasWork(total_requests)
         THEN /\ pc' = [pc EXCEPT ![w] = "decr"]
              /\ adapter_id' = [adapter_id EXCEPT ![w] = 1]
              /\ claimed' = [claimed EXCEPT ![1] = @ + 1]
              /\ UNCHANGED <<counters_lock, all_latencies, latencies>>
         ELSE /\ pc' = [pc EXCEPT ![w] = "done"]
              /\ counters_lock' = LockAfterExit(w)
              /\ all_latencies' = Extended(w)
              /\ adapter_id' = [adapter_id EXCEPT ![w] = 0]
              /\ latencies' = [latencies EXCEPT ![w] = <<>>]
              /\ UNCHANGED claimed
    /\ UNCHANGED <<budget, total_requests, num_adapters, num_threads,
                   adapter_counters, orch_pc, error, single_adapter, threads,
                   joined, result, runs, run_budget, run_counters,
                   invocations, completed>>

\* lines 522-527: remaining_adapters; break if empty (then line 544);
\* random.choice(...) + 1
CheckMulti(w) ==
    /\ pc[w] = "check"
    /\ ~single_adapter
    /\ IF remaining_adapters = {}
         THEN /\ pc' = [pc EXCEPT ![w] = "done"]
              /\ counters_lock' = LockAfterExit(w)
              /\ all_latencies' = Extended(w)
              /\ adapter_id' = [adapter_id EXCEPT ![w] = 0]
              /\ latencies' = [latencies EXCEPT ![w] = <<>>]
              /\ UNCHANGED claimed
         ELSE /\ \E a \in remaining_adapters :
                    /\ adapter_id' = [adapter_id EXCEPT ![w] = a]
                    /\ claimed' = [claimed EXCEPT ![a] = @ + 1]
              /\ pc' = [pc EXCEPT ![w] = "decr"]
              /\ UNCHANGED <<counters_lock, all_latencies, latencies>>
    /\ UNCHANGED <<budget, total_requests, num_adapters, num_threads,
                   adapter_counters, orch_pc, error, single_adapter, threads,
                   joined, result, runs, run_budget, run_counters,
                   invocations, completed>>

\* line 519 (total_requests -= 1) or line 528 (adapter_counters[..] -= 1),
\* the end of the with block, then lines 530-540: the payload for adapter_id
\* is built from locals and sent
Decrement(w) ==
    /\ pc[w] = "decr"
    /\ IF single_adapter
         THEN /\ total_requests' = Decremented(total_requests)
              /\ UNCHANGED adapter_counters
         ELSE /\ adapter_counters' =
                    [adapter_counters EXCEPT ![adapter_id[w]] = Decremented(@)]
              /\ UNCHANGED total_requests
    /\ counters_lock' = LockAfterExit(w)
    /\ invocations' = [invocations EXCEPT ![Target(w)] = @ + 1]
    /\ pc' = [pc EXCEPT ![w] = "inflight"]
    /\ UNCHANGED <<budget, num_adapters, num_threads, orch_pc, error,
                   single_adapter, threads, joined, all_latencies, adapter_id,
                   latencies, result, runs, run_budget, run_counters, claimed,
                   completed>>

\* lines 540-542: predict returns; latencies.append(latency)
Return(w) ==
    /\ pc[w] = "inflight"
    /\ \E latency \in Latency :
          latencies' = [latencies EXCEPT ![w] = Append(@, latency)]
    /\ pc' = [pc EXCEPT ![w] = "loop"]
    /\ completed' = [completed EXCEPT ![Target(w)] = @ + 1]
    /\ UNCHANGED <<budget, total_requests, num_adapters, num_threads,
                   adapter_counters, counters_lock, orch_pc, error,
                   single_adapter, threads, joined, all_latencies, adapter_id,
                   result, runs, run_budget, run_counters, claimed,
                   invocations>>

\* an exception handler that still runs line 544 for the dying thread
Unwound_Published(w) == Extended(w)

\* the shared lists after an exception has left invoke_adapter from line
\* 540: line 544 is not reached, nothing is extended
Unwound(w) == all_latencies

\* line 540: predict raises; nothing catches it, the thread ends and its
\* locals are lost with it
Raise(w) ==
    /\ pc[w] = "inflight"
    /\ pc' = [pc EXCEPT ![w] = "raised"]
    /\ all_latencies' = Unwound(w)
    /\ adapter_id' = [adapter_id EXCEPT ![w] = 0]
    /\ latencies' = [latencies EXCEPT ![w] = <<>>]
    /\ completed' = [completed EXCEPT ![Target(w)] = @ + 1]
    /\ UNCHANGED <<budget, total_requests, num_adapters, num_threads,
                   adapter_counters, counters_lock, orch_pc, error,
                   single_adapter, threads, joined, result, runs, run_budget,
                   run_counters, claimed, invocations>>

Worker(w) ==
    \/ Acquire(w)
    \/ CheckSingle(w)
    \/ CheckMulti(w)
    \/ Decrement(w)
    \/ Return(w)
    \/ Raise(w)

\* ------------------------------------------------------- the orchestrator
\* a call benchmark_scenario(single_adapter=single): lines 547-549
BenchmarkScenario(single) ==
    /\ orch_pc \in {"idle", "finished", "failed"}
    /\ runs < MaxRuns
    /\ runs' = runs + 1
    /\ single_adapter' = single
    /\ orch_pc' = "launch"
    /\ error' = "none"
    /\ threads' = 0
    /\ joined' = 0
    /\ all_latencies' = [w \in Threads |-> <<>>]
    /\ pc' = [w \in Threads |-> "unstarted"]
    /\ adapter_id' = [w \in Threads |-> 0]
    /\ latencies' = [w \in Threads |-> <<>>]
    /\ result' = NoResult
    /\ run_budget' = total_requests
    /\ run_counters' = adapter_counters
    /\ claimed' = ZeroFn
    /\ invocations' = ZeroFn
    /\ completed' = ZeroFn
    /\ UNCHANGED <<budget, total_requests, num_adapters, num_threads,
                   adapter_counters, counters_lock>>

\* one iteration of "for _ in range(num_threads)": lines 551-556
StartThread ==
    /\ orch_pc = "launch"
    /\ threads < num_threads
    /\ threads' = threads + 1
    /\ pc' = [pc EXCEPT ![threads + 1] = "loop"]
    /\ UNCHANGED <<budget, total_requests, num_adapters, num_threads,
                   adapter_counters, counters_lock, orch_pc, error,
                   single_adapter, joined, all_latencies, adapter_id,
                   latencies, result, runs, run_budget, run_counters, claimed,
                   invocations, completed>>

\* the for loop of line 551 is over
EndLaunch ==
    /\ orch_pc = "launch"
    /\ threads = num_threads
    /\ orch_pc' = "join"
    /\ UNCHANGED <<budget, total_requests, num_adapters, num_threads,
                   adapter_counters, counters_lock, error, single_adapter,
                   threads, joined, all_latencies, pc, adapter_id, latencies,
                   result, runs, run_budget, run_counters, claimed,
                   invocations, completed>>

\* one iteration of "for thread in threads: thread.join()": lines 558-559
JoinThread ==
    /\ orch_pc = "join"
    /\ joined < threads
    /\ Terminated(joined + 1)
    /\ joined' = joined + 1
    /\ UNCHANGED <<budget, total_requests, num_adapters, num_threads,
                   adapter_counters, counters_lock, orch_pc, error,
                   single_adapter, threads, all_latencies, pc, adapter_id,
                   latencies, result, runs, run_budget, run_counters, claimed,
                   invocations, completed>>

\* sum([sum(latencies) for latencies in all_latencies])
total_latency == SumOver([w \in Threads |-> SumSeq(all_latencies[w])], threads)

\* sum([len(latencies) for latencies in all_latencies])
total_requests_made == SumOver([w \in Threads |-> Len(all_latencies[w])], threads)

\* lines 561-568: the aggregate; a quotient a / b is kept as <<a, b>>.
\* Line 564 divides by one reading of time.time() - start_time, line 566
\* prints another, taken later.
Compute ==
    /\ orch_pc = "join"
    /\ joined = threads
    /\ IF ZeroDivision(total_requests_made)
         THEN /\ orch_pc' = "failed"
              /\ error' = "ZeroDivisionError"
              /\ UNCHANGED result
         ELSE /\ orch_pc' = "finished"
              /\ \E at564 \in Elapsed : \E at566 \in Elapsed :
                    /\ at564 <= at566
                    /\ result' =
                         [total_latency |-> total_latency,
                          total_requests_made |-> total_requests_made,
                          average_latency |-> <<total_latency, total_requests_made>>,
                          throughput |-> <<total_requests_made, at564>>,
                          total_time |-> at566]
              /\ UNCHANGED error
    /\ UNCHANGED <<budget, total_requests, num_adapters, num_threads,
                   adapter_counters, counters_lock, single_adapter, threads,
                   joined, all_latencies, pc, adapter_id, latencies, runs,
                   run_budget, run_counters, claimed, invocations, completed>>

Next ==
    \/ ConfigureCounters
    \/ \E single \in BOOLEAN : BenchmarkScenario(single)
    \/ StartThread
    \/ EndLaunch
    \/ JoinThread
    \/ Compute
    \/ \E w \in Threads : Worker(w)

Spec == Init /\ [][Next]_vars

\* the steps the program takes by itself; nothing obliges the user to call
\* benchmark_scenario again
Orchestrator ==
    \/ ConfigureCounters
    \/ StartThread
    \/ EndLaunch
    \/ JoinThread
    \/ Compute

Progress == Orchestrator \/ \E w \in Threads : Worker(w)

\* as long as the orchestrator or some thread can run, one of them does, and
\* a request in flight gets its response; no fairness between the threads is
\* assumed (threading.Lock gives none)
LiveSpec == Init /\ [][Next]_vars /\ WF_vars(Progress)

\* ----------------------------------------------------------- vocabulary
\* the call has ended, with a result or with an exception
RunOver == orch_pc \in {"finished", "failed"}

\* a call is running or has ended
InRun == orch_pc \in {"launch", "join", "finished", "failed"}

\* no request of the current call has raised
AllReturned == \A w \in Threads : pc[w] # "raised"

\* the worker has left its loop through a break
SawExhaustion(w) == pc[w] = "done"

\* measurements held by the workers' shared lists
Measurements == SumOver([w \in Threads |-> Len(all_latencies[w])], MaxThreads)

TotalClaimed == SumOver(claimed, MaxAdapters)

\* the per-adapter share line 508 computes
Quota == budget \div num_adapters

\* the count a worker in the claim step has tested
TestedCount(w) ==
    IF single_adapter THEN total_requests ELSE adapter_counters[adapter_id[w]]

\* ------------------------------------------------------------------ C1
\* C1: a single-adapter call made with total_requests = B >= 1 and at least
\* one worker, in which every request returned, ends with exactly B latency
\* measurements over all workers, and all B requests went to adapter 1.
C1_SingleExactBudget ==
    (RunOver /\ single_adapter /\ run_budget >= 1 /\ num_threads >= 1
       /\ AllReturned)
    => /\ Measurements = run_budget
       /\ orch_pc = "finished"
       /\ result.total_requests_made = run_budget
       /\ invocations[1] = run_budget
       /\ \A a \in AdapterIds : a # 1 => invocations[a] = 0

C1_Witness ==
    /\ orch_pc = "finished"
    /\ single_adapter
    /\ run_budget >= 3
    /\ num_threads >= 2
    /\ \A w \in 1..2 : Len(all_latencies[w]) >= 1
    /\ Measurements = run_budget

\* ------------------------------------------------------------------ C2
\* C2: in a multi-adapter call on the pool line 508 builds from budget B and
\* N adapters, no adapter is ever claimed more than B \div N times, and when
\* the call has ended every adapter has been claimed exactly B \div N times.
C2_QuotaReached ==
    (InRun /\ ~single_adapter /\ num_threads >= 1)
    => \A a \in 1..num_adapters :
          /\ claimed[a] <= Quota
          /\ (RunOver /\ adapter_counters[a] + claimed[a] = Quota)
                => claimed[a] = Quota

\* ------------------------------------------------------------------ C3
\* C3: no remaining count is ever negative, and as soon as a worker has
\* observed exhaustion (so in particular once all of them have) every
\* remaining count of the mode in use is zero.
C3_NeverNegativeThenZero ==
    /\ total_requests >= 0
    /\ \A a \in 1..Len(adapter_counters) : adapter_counters[a] >= 0
    /\ (\E w \in Threads : SawExhaustion(w))
          => IF single_adapter
               THEN total_requests = 0
               ELSE \A a \in 1..Len(adapter_counters) : adapter_counters[a] = 0

C3_Witness ==
    /\ ~single_adapter
    /\ num_threads >= 2
    /\ \A w \in 1..2 : pc[w] = "done" /\ Len(all_latencies[w]) >= 1
    /\ num_adapters >= 2
    /\ \A a \in 1..Len(adapter_counters) : adapter_counters[a] = 0 /\ claimed[a] >= 1

\* ------------------------------------------------------------------ C4
\* C4: for a valid configuration, when a call has ended the lengths of the
\* per-worker latency lists add up to the number of claims made during the
\* call, and to no more than the budget.
C4_MeasuredEqualsClaimed ==
    (RunOver /\ num_threads >= 1 /\ budget >= 1)
    => /\ Measurements = TotalClaimed
       /\ Measurements <= budget

\* ------------------------------------------------------------------ C5
\* C5: a request that comes back, failed or not, has its latency appended to
\* the issuing worker's list and the worker goes back to claim the next unit.
C5_FailureTimedAndCounted ==
    [][\A w \in Threads :
          (pc[w] = "inflight" /\ pc'[w] # "inflight")
          => /\ pc'[w] = "loop"
             /\ Len(latencies'[w]) = Len(latencies[w]) + 1]_vars

\* ------------------------------------------------------------------ C6
\* no call is running: every started thread has ended, after a break or with
\* the exception of its request, the lock is free and the join has returned
Quiescent ==
    /\ orch_pc \in {"idle", "finished", "failed", "aborted"}
    /\ counters_lock = NoOwner
    /\ \A w \in 1..threads : pc[w] = "done" \/ pc[w] = "raised"
    /\ AllReturned => \A w \in 1..threads : pc[w] = "done"

\* C6: under fair scheduling, in both modes, every call comes to its end:
\* again and again the program is in a state where every started worker has
\* left its loop (through exhaustion when every request returned), the lock
\* is free and the join has returned.
C6_Terminates == []<>Quiescent

C6_Witness ==
    /\ orch_pc = "finished"
    /\ num_threads >= 2
    /\ \A w \in 1..2 : pc[w] = "done" /\ Len(all_latencies[w]) >= 1
    /\ counters_lock = NoOwner
    /\ joined = num_threads
    /\ runs = 2

\* ------------------------------------------------------------------ C7
\* C7: a worker that reads or writes the pool holds counters_lock, at most
\* one worker is in the claim step, the count a worker tested is still
\* positive when it decrements it, and the pool only changes by the
\* decrement of the lock holder.
C7_ClaimUnderLock ==
    /\ [](\A w \in Threads :
             pc[w] \in {"check", "decr"} => counters_lock = w)
    /\ [](Cardinality({w \in Threads : pc[w] \in {"check", "decr"}}) <= 1)
    /\ [](\A w \in Threads : pc[w] = "decr" => TestedCount(w) > 0)
    /\ [][(orch_pc # "config"
             /\ <<total_requests, adapter_counters>>' # <<total_requests, adapter_counters>>)
          => \E w \in Threads :
                /\ counters_lock = w
                /\ pc[w] = "decr"
                /\ pc'[w] = "inflight"]_vars

C7_Witness ==
    /\ \E w \in Threads : pc[w] = "decr" /\ counters_lock = w
    /\ \E v \in Threads : pc[v] = "loop" /\ Len(latencies[v]) >= 1

\* ------------------------------------------------------------------ C8
\* C8: a worker whose request is in flight does not own counters_lock.
C8_NoLockInFlight ==
    \A w \in Threads : pc[w] = "inflight" => counters_lock # w

\* one request in flight while another worker is inside the claim step
C8_Witness ==
    \E v, w \in Threads :
        /\ pc[v] = "inflight"
        /\ pc[w] = "decr"
        /\ counters_lock = w

\* ------------------------------------------------------------------ C9
\* C9: from the join on exactly num_threads workers have been started, and
\* the aggregate is computed only when each of them has ended: what it
\* counted is what the workers' lists hold.
C9_JoinBarrier ==
    /\ orch_pc \in {"join", "finished", "failed"}
          => /\ threads = num_threads
             /\ \A w \in Threads : (pc[w] # "unstarted") <=> (w <= num_threads)
    /\ RunOver
          => \A w \in 1..num_threads : pc[w] \in {"done", "raised"}
    /\ orch_pc = "finished"
          => result.total_requests_made = Measurements

C9_Witness ==
    /\ orch_pc = "finished"
    /\ num_threads = MaxThreads
    /\ pc[1] = "raised"
    /\ pc[MaxThreads] = "done"
    /\ result.total_requests_made >= 2

\* ----------------------------------------------------------------- C10
\* C10: with num_threads = 0 a call is rejected with a configuration error
\* before the launch loop; it gets neither to the join nor to the aggregate.
C10_ZeroWorkersRejected ==
    num_threads = 0
    => /\ orch_pc \notin {"join", "finished"}
       /\ error # "ZeroDivisionError" \/ orch_pc = "aborted"

\* ------------------------------------------------- vocabulary, continued
TotalInvocations == SumOver(invocations, MaxAdapters)

\* the pool of the mode in use has nothing left
PoolEmpty ==
    IF single_adapter
      THEN total_requests = 0
      ELSE \A a \in 1..Len(adapter_counters) : adapter_counters[a] = 0

\* the pool of the mode in use holds what lines 502 and 508 gave it
PoolFull ==
    IF single_adapter
      THEN total_requests = budget
      ELSE adapter_counters = [a \in 1..num_adapters |-> Quota]

\* requests for adapter a that have been sent and have not come back
InFlight(a) ==
    Cardinality({w \in Threads : pc[w] = "inflight" /\ adapter_id[w] = a})

\* ----------------------------------------------------------------- C11
\* C11: with a budget of zero and at least one worker, no worker ever claims
\* or sends anything, and the call ends with a result, without an error.
C11_ZeroBudgetVacuous ==
    (budget = 0 /\ num_threads >= 1 /\ InRun)
    => /\ TotalClaimed = 0
       /\ TotalInvocations = 0
       /\ \A w \in Threads : pc[w] \in {"unstarted", "loop", "check", "done"}
       /\ orch_pc # "failed"
       /\ error = "none"

\* ----------------------------------------------------------------- C12
\* C12: every call of benchmark_scenario starts, before its first thread,
\* from the full pool of its mode, whatever calls came before.
C12_PoolPerRun ==
    (orch_pc = "launch" /\ threads = 0) => PoolFull

\* ----------------------------------------------------------------- C13
\* C13: after the setup no step raises a remaining count; a request that
\* raises leaves the pool and the claims as they are (nothing is given back
\* or claimed again for it); and a claim made on an empty pool ends the
\* worker's loop.
C13_NoReplenishment ==
    [][orch_pc # "config"
       => /\ total_requests' <= total_requests
          /\ Len(adapter_counters') = Len(adapter_counters)
          /\ \A a \in 1..Len(adapter_counters) :
                adapter_counters'[a] <= adapter_counters[a]
          /\ \A w \in Threads :
                (pc[w] = "inflight" /\ pc'[w] = "raised")
                => /\ total_requests' = total_requests
                   /\ adapter_counters' = adapter_counters
                   /\ claimed' = claimed
                   /\ invocations' = invocations
          /\ \A w \in Threads :
                (pc[w] = "check" /\ pc'[w] # "check" /\ PoolEmpty)
                => pc'[w] = "done"]_vars

C13_Witness ==
    /\ single_adapter
    /\ run_budget >= 2
    /\ total_requests = 0
    /\ pc[1] = "raised"
    /\ pc[2] = "done"
    /\ Len(all_latencies[2]) >= 1

\* ----------------------------------------------------------------- C14
\* C14: during a call, for the global count in single-adapter mode and for
\* each adapter otherwise, what remains, what is in flight and what has come
\* back add up to the count at the start of the call, and the requests sent
\* never exceed that count.
C14_NoDoubleHandout ==
    InRun
    => IF single_adapter
         THEN /\ total_requests + InFlight(1) + completed[1] = run_budget
              /\ invocations[1] <= run_budget
              /\ \A a \in AdapterIds : a # 1 => invocations[a] = 0
         ELSE \A a \in 1..num_adapters :
                 /\ adapter_counters[a] + InFlight(a) + completed[a]
                       = run_counters[a]
                 /\ invocations[a] <= run_counters[a]

C14_Witness ==
    /\ InRun
    /\ ~single_adapter
    /\ Len(run_counters) >= 2
    /\ \A a \in 1..2 : run_counters[a] >= 1
    /\ InFlight(1) = 1
    /\ InFlight(2) = 1
    /\ \E a \in 1..2 : adapter_counters[a] = 0

\* ----------------------------------------------------------------- C15
\* C15: with num_adapters = 0 the cell fails at line 508: benchmark_scenario
\* is never called, no thread is created and no request is sent.
C15_ZeroAdaptersFailFirst ==
    num_adapters = 0
    => /\ orch_pc \in {"config", "aborted"}
       /\ orch_pc = "aborted" => error = "ZeroDivisionError"
       /\ runs = 0
       /\ threads = 0
       /\ \A w \in Threads : pc[w] = "unstarted"
       /\ TotalInvocations = 0

C15_Witness ==
    /\ num_adapters = 0
    /\ num_threads >= 1
    /\ budget >= 1
    /\ orch_pc = "aborted"
    /\ error = "ZeroDivisionError"

\* ----------------------------------------------------------------- C16
\* C16: in multi-adapter mode a claim selects an adapter in 1..num_adapters
\* whose count is > 0, the decrement takes exactly that count down by one and
\* leaves the others (and total_requests) alone, a claim ends the loop only
\* when no count is > 0, and every adapter with a count > 0 can be the one
\* selected.
C16_MultiClaim ==
    /\ [][~single_adapter
          => \A w \in Threads :
                /\ (pc[w] = "check" /\ pc'[w] = "decr")
                   => /\ adapter_id'[w] \in 1..num_adapters
                      /\ adapter_counters[adapter_id'[w]] > 0
                      /\ adapter_counters' = adapter_counters
                /\ (pc[w] = "decr" /\ pc'[w] = "inflight")
                   => /\ adapter_counters' =
                            [adapter_counters EXCEPT ![adapter_id[w]] = @ - 1]
                      /\ total_requests' = total_requests
                /\ (pc[w] = "check" /\ pc'[w] = "done")
                   => \A a \in 1..num_adapters : adapter_counters[a] = 0]_vars
    /\ [](\A w \in Threads :
             (~single_adapter /\ pc[w] = "check")
             => \A a \in 1..num_adapters :
                   adapter_counters[a] > 0
                   => ENABLED (CheckMulti(w) /\ adapter_id'[w] = a))

\* adapter 2 is selected while adapter 1 still has a count > 0
C16_Witness ==
    \E w \in Threads :
        /\ ~single_adapter
        /\ pc[w] = "decr"
        /\ adapter_id[w] = 2
        /\ adapter_counters[1] > 0

\* ----------------------------------------------------------------- C17
\* C17: a worker sends a request only from a claim it has just made and for
\* the adapter of that claim; while its request is in flight it does nothing
\* but wait for it, whatever happens to the pool; the requests outstanding
\* are those of the workers in flight, one each; claims are only made by a
\* worker at its claim step; and a worker that has left its loop stays out
\* of it for the rest of the call.
C17_WorkerLoop ==
    /\ [][\A w \in Threads :
             /\ (pc'[w] = "inflight" /\ pc[w] # "inflight")
                => /\ pc[w] = "decr"
                   /\ adapter_id[w] \in AdapterIds
                   /\ adapter_id'[w] = adapter_id[w]
                   /\ invocations' =
                         [invocations EXCEPT ![adapter_id[w]] = @ + 1]
             /\ pc[w] = "decr" => pc'[w] \in {"decr", "inflight"}
             /\ pc[w] = "inflight"
                => /\ pc'[w] \in {"inflight", "loop", "raised"}
                   /\ pc'[w] = "inflight" => adapter_id'[w] = adapter_id[w]
             /\ pc[w] \in {"done", "raised"}
                => \/ pc'[w] = pc[w]
                   \/ runs' = runs + 1 /\ pc'[w] = "unstarted"]_vars
    /\ [][runs' = runs
          => /\ claimed' # claimed
                => \E w \in Threads : pc[w] = "check" /\ pc'[w] = "decr"
             /\ invocations' # invocations
                => \E w \in Threads : pc[w] = "decr" /\ pc'[w] = "inflight"]_vars
    /\ [](TotalInvocations - SumOver(completed, MaxAdapters)
             = Cardinality({w \in Threads : pc[w] = "inflight"}))

\* a request still in flight, for adapter 2, after the pool has run empty
\* and another worker has left its loop
C17_Witness ==
    \E v, w \in Threads :
        /\ ~single_adapter
        /\ pc[v] = "inflight"
        /\ adapter_id[v] = 2
        /\ PoolEmpty
        /\ pc[w] = "done"
        /\ Len(all_latencies[w]) >= 1

C19_ThroughputOverReportedTime ==
    (orch_pc = "finished" /\ AllReturned)
    => /\ result.throughput[1] * result.total_time
             = TotalClaimed * result.throughput[2]
       /\ result.average_latency[1] > 0
       /\ result.average_latency[2] > 0

\* ----------------------------------------------------------------- C20
\* C20: a single-adapter call leaves adapter_counters alone and a
\* multi-adapter call leaves total_requests alone; so a first, single-adapter
\* call sends budget requests, and a multi-adapter call that follows it,
\* with total_requests at 0, sends num_adapters * (budget \div num_adapters).
C20_DisjointCounters ==
    /\ [][(InRun /\ runs' = runs)
          => IF single_adapter
               THEN adapter_counters' = adapter_counters
               ELSE total_requests' = total_requests]_vars
    /\ []((RunOver /\ num_threads >= 1 /\ runs = 1 /\ single_adapter)
             => TotalInvocations = budget)
    /\ []((RunOver /\ num_threads >= 1 /\ runs = 2 /\ ~single_adapter
              /\ total_requests = 0
              /\ run_counters = [a \in 1..num_adapters |-> Quota])
             => TotalInvocations = num_adapters * Quota)

\* ------------------------------------------------- vocabulary, concluded
\* requests of the current call that have returned or raised
TotalCompleted == SumOver(completed, MaxAdapters)

\* workers whose request raised
Raised == {w \in Threads : pc[w] = "raised"}

\* entries held by the workers, in their local and in their shared lists
Recorded ==
    SumOver([w \in Threads |-> Len(latencies[w]) + Len(all_latencies[w])],
            MaxThreads)

\* what the pool of the mode in use held when the call was made
StartBudget ==
    IF single_adapter
      THEN run_budget
      ELSE SumOver([a \in AdapterIds |->
                      IF a <= Len(run_counters) THEN run_counters[a] ELSE 0],
                   MaxAdapters)

\* what the pool of the mode in use holds now
Remaining ==
    IF single_adapter
      THEN total_requests
      ELSE SumOver([a \in AdapterIds |->
                      IF a <= Len(adapter_counters)
                        THEN adapter_counters[a] ELSE 0],
                   MaxAdapters)

\* ----------------------------------------------------------------- C21
\* C21: the list a worker shares is empty until that worker leaves its loop
\* through exhaustion, and then it gets the worker's whole local list in one
\* step (so, when no request raised, the lists hold every request that came
\* back); a request that raises leaves every shared list and the pool as
\* they are, so the result counts none of the measurements of a worker that
\* raised, while the units that worker claimed are not given back.
C21_PublishOnExhaustionOnly ==
    /\ [](\A w \in Threads : all_latencies[w] # <<>> => pc[w] = "done")
    /\ [](AllReturned => Recorded = TotalCompleted)
    /\ [][runs' = runs
          => \A w \in Threads :
                /\ all_latencies'[w] # all_latencies[w]
                   => /\ pc[w] = "check"
                      /\ pc'[w] = "done"
                      /\ all_latencies[w] = <<>>
                      /\ all_latencies'[w] = latencies[w]
                /\ (pc[w] = "inflight" /\ pc'[w] = "raised")
                   => /\ all_latencies' = all_latencies
                      /\ total_requests' = total_requests
                      /\ adapter_counters' = adapter_counters]_vars
    /\ [](orch_pc = "finished"
             => /\ \A w \in Raised : all_latencies[w] = <<>>
                /\ result.total_requests_made = Recorded
                /\ result.total_requests_made
                      <= TotalCompleted - Cardinality(Raised))
    /\ [](RunOver => Remaining = StartBudget - TotalCompleted)

\* worker 1 had one request return and then one raise: the call reports the
\* single measurement of worker 2, and the three units are gone
C21_Witness ==
    /\ orch_pc = "finished"
    /\ single_adapter
    /\ run_budget = 3
    /\ total_requests = 0
    /\ pc[1] = "raised"
    /\ pc[2] = "done"
    /\ all_latencies[1] = <<>>
    /\ Len(all_latencies[2]) = 1
    /\ result.total_requests_made = 1

\* ----------------------------------------------------------------- C22
\* C22: a call made on an empty pool (a multi-adapter call with budget <
\* num_adapters, whose counts are all 0, or a call made after the pool of
\* its mode was used up) makes no claim and sends no request; and every call
\* that ends with no measurement ends in the ZeroDivisionError of line 563,
\* without a result, which is the only way a call fails.
C22_EmptyRunDivisionError ==
    /\ (InRun /\ ~single_adapter /\ budget < num_adapters) => StartBudget = 0
    /\ (InRun /\ StartBudget = 0)
          => /\ TotalClaimed = 0
             /\ TotalInvocations = 0
             /\ \A w \in Threads : pc[w] \notin {"decr", "inflight", "raised"}
             /\ orch_pc # "finished"
    /\ (RunOver /\ Measurements = 0)
          => /\ orch_pc = "failed"
             /\ error = "ZeroDivisionError"
             /\ result = NoResult
    /\ orch_pc = "failed" => Measurements = 0

\* a second single-adapter call, made when the first one has used up
\* total_requests: both workers break at once and the call fails
C22_Witness ==
    /\ orch_pc = "failed"
    /\ error = "ZeroDivisionError"
    /\ runs = 2
    /\ single_adapter
    /\ budget >= 2
    /\ run_budget = 0
    /\ num_threads >= 2
    /\ \A w \in 1..2 : pc[w] = "done"
    /\ TotalInvocations = 0

\* ----------------------------------------------------------------- C23
\* workers that ran to their end without ever getting a request back: they
\* broke at their first claim
EmptyHanded ==
    {w \in 1..threads : pc[w] = "done" /\ all_latencies[w] = <<>>}

\* C23: there are never more requests in flight than workers, nor than the
\* pool of the mode in use held when the call was made; and when a call has
\* ended, the workers in excess of that count (at least num_threads minus
\* it) have left their loop through exhaustion with an empty list, while no
\* more requests than that count were sent.
C23_InFlightBound ==
    InRun
    => /\ Cardinality({w \in Threads : pc[w] = "inflight"}) <= num_threads
       /\ Cardinality({w \in Threads : pc[w] = "inflight"}) <= StartBudget
       /\ TotalInvocations <= StartBudget
       /\ RunOver
             => /\ Cardinality(EmptyHanded) >= num_threads - StartBudget
                /\ \A w \in EmptyHanded : latencies[w] = <<>>

\* two workers on a pool of one unit: one gets the unit, the other breaks
\* at its first claim
C23_Witness ==
    /\ orch_pc = "finished"
    /\ num_threads = 2
    /\ StartBudget = 1
    /\ Cardinality(EmptyHanded) = 1
    /\ Measurements = 1

====
